---- MODULE Spec2Model ----
(***************************************************************************)
(* ConnectionManager (src/controllers/connectionManager.ts): the registry  *)
(* of per-document connections and the connect / disconnect / choose-      *)
(* database / new-connection handlers, on the JavaScript event loop: a     *)
(* handler runs to completion, promise reactions run as microtasks before  *)
(* the next event, and the service's responses arrive in any order.        *)
(***************************************************************************)
EXTENDS Integers, Sequences, FiniteSets, Bags, TLC

\* requests that may be unanswered at once; a command is invoked only when
\* the requests it may send fit
MaxRequests == 2

\* the clock stops here
MaxClock == 2

Resources == {"doc1", "doc2"}
\* Utils.getActiveTextEditorUri(): a document, or '' when no editor is open
FileUris == Resources \cup {""}
Users == {"a"}
Databases == {"db1", "db2"}
Credentials == [user : Users, database : Databases]

\* result.connectionId of a connect response: a handle, '' or a missing field
Undefined == "<undefined>"
Handles == {"abc", "xyz"}
ConnectionIds == Handles \cup {"", Undefined}
Messages == {"login failed", "no such server"}

NoCreds == [user |-> "", database |-> ""]

\* Constants.msgError, the prefix connect() puts before the service's messages
msgError == "Error: "
msgChooseDatabaseNotConnected == "msgChooseDatabaseNotConnected"
msgOpenSqlFile == "msgOpenSqlFile"

VARIABLES
    clock,         \* the time the timers read
    connections,   \* _connections: fileUri -> ConnectionInfo
    ops,           \* the commands under way (a bag): closure variables,
                   \* position, and the state of the requests each has sent
    service,       \* the documents the service holds a connection for
    connectCalled, \* the documents connect() has been called for
    completed,     \* per document, the request that was answered last
    out            \* what the last handler did: calls made, promises settled

vars == <<clock, connections, ops, service, connectCalled, completed, out>>

----------------------------------------------------------------------------
\* The registry

isConnected(fileUri) == fileUri \in DOMAIN connections

ConnectionInfo(connectionId, credentials) ==
    [connectionId |-> connectionId, credentials |-> credentials]

\* self._connections[fileUri] = connection
Put(conns, fileUri, connection) ==
    [u \in DOMAIN conns \cup {fileUri} |->
        IF u = fileUri THEN connection ELSE conns[u]]

\* a delete that removes nothing
DeleteNothing(conns, fileUri) == conns

\* delete self._connections[fileUri]
Delete(conns, fileUri) ==
    [u \in DOMAIN conns \ {fileUri} |-> conns[u]]

\* the test without its second half
ValidConnectionAcceptsEmpty(result) == result.connectionId # Undefined

\* result.connectionId && result.connectionId !== ''
ValidConnection(result) ==
    result.connectionId # Undefined /\ result.connectionId # ""

\* the messages shown without the prefix
ErrorTextDropsPrefix(messages) == messages

\* Constants.msgError + result.messages
ErrorText(messages) == msgError \o messages

----------------------------------------------------------------------------
\* What a handler does to its collaborators, in the order it does it

Call(fn, fileUri, creds, text, value) ==
    [fn |-> fn, uri |-> fileUri, creds |-> creds, text |-> text, value |-> value,
     measures |-> << >>]

Invoked(fn, fileUri, creds) == Call(fn, fileUri, creds, "", FALSE)
Status(fn, fileUri, creds, messages) == Call(fn, fileUri, creds, messages, FALSE)
ShowMsg(fn, text) == Call(fn, "", NoCreds, text, FALSE)
SendRequest(kind, fileUri, creds) == Call("sendRequest", fileUri, creds, kind, FALSE)
\* the promise a handler returned is resolved with value, or rejected
Settled(how, promise, fileUri, value) == Call(how, fileUri, NoCreds, promise, value)
\* self._connections[fileUri] = connection
Stored(fileUri, creds) == Call("_connections[fileUri] =", fileUri, creds, "", FALSE)
Telemetry(fileUri, measures) ==
    [Call("sendTelemetryEvent", fileUri, NoCreds, "DatabaseConnected", FALSE)
        EXCEPT !.measures = <<measures>>]

NoResponse == << >>
Response(kind, connectionId, messages, success, creds) ==
    <<[kind |-> kind, connectionId |-> connectionId, messages |-> messages,
       success |-> success, creds |-> creds, timers |-> << >>]>>
\* a connect response, with the two timers of the call as its callback ended
\* them
Timed(response, extensionTimer, serviceTimer) ==
    <<[response[1] EXCEPT !.timers = <<extensionTimer, serviceTimer>>]>>

Out(fileUri, calls, response, finished) ==
    [uri |-> fileUri, calls |-> calls, response |-> response, finished |-> finished]

CallsOf(o) == {o.calls[i] : i \in DOMAIN o.calls}
Calls == CallsOf(out)

----------------------------------------------------------------------------
\* Commands under way.  pc is "prompt" while the user has not answered,
\* "reaction" while the reaction resolving onNewConnection's promise is
\* queued, and "run" otherwise; disc and conn are the state of the command's
\* disconnect and connect request: "none", "queued" (the connect() call is a
\* queued reaction), "accepted" / "refused" (sent and not answered, with what
\* the service did with it), "ok" / "failed" (answered), "lost" (the request
\* failed in transport: its promise is rejected, the callback given to
\* .then() never runs); outcome is what the
\* promise of the command's disconnect() call was settled with, if it was

Op(kind, fileUri, creds, pc, disc, conn) ==
    [kind |-> kind, uri |-> fileUri, creds |-> creds, pc |-> pc,
     disc |-> disc, conn |-> conn, outcome |-> << >>, clean |-> TRUE,
     extensionTimer |-> 0, serviceTimer |-> 0]

Unanswered == {"accepted", "refused"}
Sent(accepted) == IF accepted THEN "accepted" ELSE "refused"

Live == BagToSet(ops)

\* the requests of one kind not answered yet, as the commands that sent them
Requests(kind) ==
    {o \in Live : IF kind = "connect" THEN o.conn \in Unanswered
                                       ELSE o.disc \in Unanswered}

\* number of unanswered requests for fileUri
InFlight(fileUri) ==
    LET n(o) == (IF o.disc \in Unanswered THEN 1 ELSE 0)
              + (IF o.conn \in Unanswered THEN 1 ELSE 0)
        ofUri == {o \in Live : o.uri = fileUri}
        sum[S \in SUBSET ofUri] ==
            IF S = {} THEN 0
            ELSE LET o == CHOOSE x \in S : TRUE
                 IN n(o) * CopiesIn(o, ops) + sum[S \ {o}]
    IN sum[ofUri]

\* the promise reactions queued: they run before any other handler
Microtasks == {o \in Live : o.conn = "queued" \/ o.pc = "reaction"}

\* the requests a command may still send or has unanswered
Load(o) ==
    IF o.pc = "prompt" THEN 2
    ELSE (IF o.disc \in Unanswered THEN 1 ELSE 0)
       + (IF o.conn \in Unanswered \cup {"queued", "lost"} THEN 1 ELSE 0)

TotalLoad ==
    LET sum[S \in SUBSET Live] ==
            IF S = {} THEN 0
            ELSE LET o == CHOOSE x \in S : TRUE
                 IN Load(o) * CopiesIn(o, ops) + sum[S \ {o}]
    IN sum[Live]

CanInvoke(n) == Microtasks = {} /\ TotalLoad + n <= MaxRequests

Started(o) == o.pc # "prompt"

Add(os, o) == os (+) SetToBag({o})
Remove(os, o) == os (-) SetToBag({o})

\* the commands under way once a command starts sending for fileUri: those
\* that have started on the same document are no longer alone on it
Disturbed(os, fileUri) ==
    LET f(o) == IF o.uri = fileUri /\ Started(o) THEN [o EXCEPT !.clean = FALSE]
                ELSE o
        copies == {<<o, i>> \in BagToSet(os) \X (1..(MaxRequests + 1)) :
                        i <= CopiesIn(o, os)}
    IN [r \in {f(o) : o \in BagToSet(os)} |->
            Cardinality({c \in copies : f(c[1]) = r})]

\* no other command has anything under way for the document
Alone(os, fileUri) == \A o \in BagToSet(os) : o.uri = fileUri => ~Started(o)

\* the commands under way after a command that was not among os starts as o
Start(os, o) ==
    Add(Disturbed(os, o.uri), [o EXCEPT !.clean = Alone(os, o.uri)])

\* nothing of the command is left: no request unanswered, no reaction
\* queued, no promise of connect() left pending by a lost request
Over(o) ==
    /\ o.pc = "run"
    /\ o.disc \notin Unanswered
    /\ o.conn \notin Unanswered \cup {"queued", "lost"}

\* the commands under way after one of os became o
After(os, o) == IF Over(o) THEN os ELSE Add(os, o)
Finished(o) == IF Over(o) THEN <<o>> ELSE << >>

\* the service applies a request when it is sent
ServiceApplies(svc, kind, fileUri, accepted) ==
    IF ~accepted THEN svc
    ELSE IF kind = "connect" THEN svc \cup {fileUri} ELSE svc \ {fileUri}

----------------------------------------------------------------------------
Init ==
    /\ clock = 0
    /\ connections = << >>
    /\ ops = EmptyBag
    /\ service = {}
    /\ connectCalled = {}
    /\ completed = [u \in FileUris |-> "none"]
    /\ out = Out("", << >>, NoResponse, << >>)

----------------------------------------------------------------------------
\* Utils.Timer: started when constructed, stopped by end()
Timer(start, end) == [start |-> start, end |-> end]
getDuration(timer) == timer.end - timer.start

\* the event measuring extension time as the whole call
connect_measuresWholeCall(extensionTimer, serviceTimer) ==
    [extensionConnectionTime |-> getDuration(extensionTimer),
     serviceConnectionTime |-> getDuration(serviceTimer)]

\* the measures of the DatabaseConnected event
connect_measures(extensionTimer, serviceTimer) ==
    [extensionConnectionTime |->
        getDuration(extensionTimer) - getDuration(serviceTimer),
     serviceConnectionTime |-> getDuration(serviceTimer)]

----------------------------------------------------------------------------
\* disconnect() and connect(), as what they do in the step that calls them

\* a disconnect() that does not look at the registry
disconnect_sendsAlways(fileUri) == TRUE

\* disconnect(): if (this.isConnected(fileUri)) a request is sent
disconnect_sends(fileUri) == isConnected(fileUri)

\* disconnect(): the request, if any, then resolve(true), all inside the
\* promise executor, before any response can arrive
disconnect_calls(fileUri) ==
    <<Invoked("disconnect", fileUri, NoCreds)>>
    \o (IF disconnect_sends(fileUri)
        THEN <<SendRequest("disconnect", fileUri, NoCreds)>> ELSE << >>)
    \o <<Settled("resolve", "disconnect", fileUri, TRUE)>>

\* what the promise disconnect() returns is settled with: the value of the
\* first resolve, whatever is passed to a later one
disconnect_outcome(fileUri) ==
    LET calls == disconnect_calls(fileUri)
        settles == {i \in DOMAIN calls : calls[i].fn \in {"resolve", "reject"}}
    IN IF settles = {} THEN << >>
       ELSE <<calls[CHOOSE i \in settles : \A j \in settles : i <= j].value>>

\* the state of the disconnect request of the command that called disconnect()
disconnect_request(fileUri, accepted) ==
    IF disconnect_sends(fileUri) THEN Sent(accepted) ELSE "none"

\* a disconnect() that sends nothing is complete when it returns
disconnect_completed(fileUri) ==
    IF disconnect_sends(fileUri) THEN completed
    ELSE [completed EXCEPT ![fileUri] = "disconnect"]

disconnect_service(fileUri, accepted) ==
    IF disconnect_sends(fileUri)
    THEN ServiceApplies(service, "disconnect", fileUri, accepted)
    ELSE service

\* connect(): statusView.connecting, then the request; the promise stays
\* pending until the response
connect_calls(fileUri, connectionCreds) ==
    <<Invoked("connect", fileUri, connectionCreds),
      Status("statusView.connecting", fileUri, connectionCreds, ""),
      SendRequest("connect", fileUri, connectionCreds)>>

\* connect(): extensionTimer is started first, serviceTimer right before the
\* request is sent
connect_timers(o, delay) ==
    [o EXCEPT !.extensionTimer = clock, !.serviceTimer = clock + delay]

----------------------------------------------------------------------------
\* Commands

\* connect(fileUri, connectionCreds) called on its own; delay is the time
\* between the two new Utils.Timer()
Connect(fileUri, connectionCreds, accepted, delay) ==
    /\ CanInvoke(1)
    /\ clock + delay <= MaxClock
    /\ clock' = clock + delay
    /\ ops' = Start(ops, connect_timers(Op("connect", fileUri, connectionCreds,
                                           "run", "none", Sent(accepted)), delay))
    /\ service' = ServiceApplies(service, "connect", fileUri, accepted)
    /\ connectCalled' = connectCalled \cup {fileUri}
    /\ out' = Out(fileUri, connect_calls(fileUri, connectionCreds), NoResponse, << >>)
    /\ UNCHANGED <<connections, completed>>

\* onDisconnect() / disconnect(fileUri) called on its own
Disconnect(fileUri, accepted) ==
    /\ CanInvoke(1)
    /\ LET o == [Op("disconnect", fileUri, NoCreds, "run",
                      disconnect_request(fileUri, accepted), "none")
                   EXCEPT !.outcome = disconnect_outcome(fileUri)]
       IN /\ ops' = IF Over(o) THEN ops ELSE Start(ops, o)
          /\ out' = Out(fileUri, disconnect_calls(fileUri), NoResponse,
                        IF Over(o) THEN <<[o EXCEPT !.clean = Alone(ops, fileUri)]>>
                        ELSE << >>)
    /\ service' = disconnect_service(fileUri, accepted)
    /\ completed' = disconnect_completed(fileUri)
    /\ UNCHANGED <<clock, connections, connectCalled>>

\* a not-connected branch that goes on to the prompt
onChooseDatabase_notConnectedFallsThrough(fileUri) ==
    <<Invoked("onChooseDatabase", fileUri, NoCreds),
      ShowMsg("showWarnMsg", msgChooseDatabaseNotConnected),
      Invoked("showDatabasesOnCurrentServer", fileUri, NoCreds)>>

\* onChooseDatabase(): if (!self.isConnected(fileUri)) { showWarnMsg; return; }
onChooseDatabase_notConnected(fileUri) ==
    <<Invoked("onChooseDatabase", fileUri, NoCreds),
      ShowMsg("showWarnMsg", msgChooseDatabaseNotConnected)>>

\* onChooseDatabase(), fileUri being the active editor's document
OnChooseDatabase(fileUri) ==
    /\ CanInvoke(2)
    /\ IF ~isConnected(fileUri)
       THEN /\ out' = Out(fileUri, onChooseDatabase_notConnected(fileUri),
                          NoResponse, << >>)
            /\ UNCHANGED ops
       ELSE LET creds == connections[fileUri].credentials
            IN /\ ops' = Add(ops, Op("onChooseDatabase", fileUri, creds, "prompt",
                                     "none", "none"))
               /\ out' = Out(fileUri,
                        <<Invoked("onChooseDatabase", fileUri, NoCreds),
                          Invoked("showDatabasesOnCurrentServer", fileUri, creds)>>,
                        NoResponse, << >>)
    /\ UNCHANGED <<clock, connections, service, connectCalled, completed>>

\* onNewConnection(), fileUri being the active editor's document
OnNewConnection(fileUri) ==
    /\ CanInvoke(2)
    /\ ops' = Add(ops, Op("onNewConnection", fileUri, NoCreds, "prompt",
                          "none", "none"))
    /\ out' = Out(fileUri,
            <<Invoked("onNewConnection", fileUri, NoCreds)>>
            \o (IF fileUri = "" THEN <<ShowMsg("showInfoMsg", msgOpenSqlFile)>> ELSE << >>)
            \o <<Invoked("showConnections", fileUri, NoCreds)>>,
            NoResponse, << >>)
    /\ UNCHANGED <<clock, connections, service, connectCalled, completed>>

----------------------------------------------------------------------------
\* The user's answers

\* ConnectionUI.showDatabasesOnCurrentServer: the credentials it was given,
\* with the database the user picked
showDatabasesOnCurrentServer(currentCredentials, database) ==
    [currentCredentials EXCEPT !.database = database]

\* the callback of both prompts once the user has picked: disconnect(fileUri)
\* runs now, the callback of its .then() is queued
DisconnectThenConnect(o, creds, accepted) ==
    /\ ops' = Start(Remove(ops, o),
                    [o EXCEPT !.creds = creds, !.pc = "run", !.conn = "queued",
                              !.disc = disconnect_request(o.uri, accepted),
                              !.outcome = disconnect_outcome(o.uri)])
    /\ service' = disconnect_service(o.uri, accepted)
    /\ completed' = disconnect_completed(o.uri)
    /\ out' = Out(o.uri, disconnect_calls(o.uri), NoResponse, << >>)

\* the user closed the prompt: the callback does nothing
Dismissed(o) ==
    /\ ops' = Remove(ops, o)
    /\ out' = Out(o.uri, << >>, NoResponse, <<[o EXCEPT !.pc = "dismissed"]>>)
    /\ UNCHANGED <<service, completed>>

\* showDatabasesOnCurrentServer(...).then(newDatabaseCredentials => ...)
ChooseDatabaseAnswer(o, picked, accepted) ==
    /\ Microtasks = {}
    /\ o \in Live
    /\ o.kind = "onChooseDatabase" /\ o.pc = "prompt"
    /\ IF picked = << >>
       THEN Dismissed(o)
       ELSE DisconnectThenConnect(o,
                showDatabasesOnCurrentServer(o.creds, picked[1]), accepted)
    /\ UNCHANGED <<clock, connections, connectCalled>>

\* showConnections().then(function(connectionCreds) ...)
NewConnectionAnswer(o, picked, accepted) ==
    /\ Microtasks = {}
    /\ o \in Live
    /\ o.kind = "onNewConnection" /\ o.pc = "prompt"
    /\ IF picked = << >>
       THEN Dismissed(o)
       ELSE DisconnectThenConnect(o, picked[1], accepted)
    /\ UNCHANGED <<clock, connections, connectCalled>>

----------------------------------------------------------------------------
\* Promise reactions

\* self.disconnect(fileUri).then(() => self.connect(fileUri, creds) ...)
ThenConnect(o, accepted, delay) ==
    /\ o \in Microtasks /\ o.conn = "queued"
    /\ clock + delay <= MaxClock
    /\ clock' = clock + delay
    /\ ops' = Add(Remove(ops, o),
                  connect_timers([o EXCEPT !.conn = Sent(accepted)], delay))
    /\ service' = ServiceApplies(service, "connect", o.uri, accepted)
    /\ connectCalled' = connectCalled \cup {o.uri}
    /\ out' = Out(o.uri, connect_calls(o.uri, o.creds), NoResponse, << >>)
    /\ UNCHANGED <<connections, completed>>

\* self.connect(...).then(function() { resolve(true); })
ThenResolve(o) ==
    /\ o \in Microtasks /\ o.pc = "reaction"
    /\ LET o2 == [o EXCEPT !.pc = "run"]
       IN /\ ops' = After(Remove(ops, o), o2)
          /\ out' = Out(o.uri, <<Settled("resolve", "onNewConnection", o.uri, TRUE)>>,
                        NoResponse, Finished(o2))
    /\ UNCHANGED <<clock, connections, service, connectCalled, completed>>

----------------------------------------------------------------------------
\* Responses of the service

\* a success branch that does not store the connection
connect_successForgets(conns, fileUri, result, connectionCreds) == conns

\* the registry after a connect response with a valid connectionId
connect_success(conns, fileUri, result, connectionCreds) ==
    Put(conns, fileUri, ConnectionInfo(result.connectionId, connectionCreds))

\* a disconnect callback that leaves the entry
disconnect_responseKeeps(conns, fileUri) == conns

\* a disconnect callback that clears the whole registry
disconnect_responseClearsAll(conns, fileUri) == << >>

\* the registry after a disconnect response
disconnect_response(conns, fileUri) == Delete(conns, fileUri)

\* a reaction that resolves whichever way connect()'s promise is settled
connect_thenAlways(kind, how) ==
    IF kind = "onNewConnection" THEN "reaction" ELSE "run"

\* where a command is once its connect()'s promise is settled by how:
\* onNewConnection gave it .then(function() { resolve(true); }), which is
\* queued if it is resolved; onChooseDatabase gave it nothing
connect_then(kind, how) ==
    IF kind = "onNewConnection" /\ how = "resolve" THEN "reaction" ELSE "run"

\* a failure branch that sends the event as well
connect_failureCallsWithEvent(fileUri, connectionCreds, messages) ==
    <<ShowMsg("showErrorMsg", ErrorText(messages)),
      Status("statusView.connectError", fileUri, connectionCreds, messages),
      Telemetry(fileUri, connect_measures(Timer(0, 0), Timer(0, 0))),
      Settled("reject", "connect", fileUri, FALSE)>>

\* the else branch of the connect callback
connect_failureCalls(fileUri, connectionCreds, messages) ==
    <<ShowMsg("showErrorMsg", ErrorText(messages)),
      Status("statusView.connectError", fileUri, connectionCreds, messages),
      Settled("reject", "connect", fileUri, FALSE)>>

\* the branch of the connect callback for a valid connectionId
connect_successCalls(fileUri, connectionCreds, extensionTimer, serviceTimer) ==
    <<Stored(fileUri, connectionCreds),
      Status("statusView.connectSuccess", fileUri, connectionCreds, ""),
      Telemetry(fileUri, connect_measures(extensionTimer, serviceTimer)),
      Settled("resolve", "connect", fileUri, TRUE)>>

\* client.sendRequest(ConnectionRequest.type, ...).then((result) => ...);
\* delay is the time between serviceTimer.end() and extensionTimer.end()
ConnectResponse(o, connectionId, messages, delay) ==
    /\ Microtasks = {}
    /\ o \in Requests("connect")
    /\ o.conn = "accepted" <=> connectionId \in Handles
    /\ clock + delay <= MaxClock
    /\ clock' = clock + delay
    /\ LET result == [connectionId |-> connectionId, messages |-> messages]
           serviceTimer == Timer(o.serviceTimer, clock)
           extensionTimer == Timer(o.extensionTimer, clock + delay)
           response == Timed(Response("connect", connectionId, messages, FALSE,
                                      o.creds), extensionTimer, serviceTimer)
       IN /\ IF ValidConnection(result)
             THEN LET o2 == [o EXCEPT !.conn = "ok",
                               !.pc = connect_then(o.kind, "resolve")]
                  IN /\ connections' = connect_success(connections, o.uri, result, o.creds)
                     /\ ops' = After(Remove(ops, o), o2)
                     /\ out' = Out(o.uri,
                           connect_successCalls(o.uri, o.creds, extensionTimer,
                                                serviceTimer),
                           response, Finished(o2))
             ELSE LET o2 == [o EXCEPT !.conn = "failed",
                               !.pc = connect_then(o.kind, "reject")]
                  IN /\ ops' = After(Remove(ops, o), o2)
                     /\ out' = Out(o.uri,
                           connect_failureCalls(o.uri, o.creds, result.messages),
                           response, Finished(o2))
                     /\ UNCHANGED connections
          /\ completed' = [completed EXCEPT ![o.uri] =
                IF connectionId \in Handles THEN "connect" ELSE "connectFailed"]
    /\ UNCHANGED <<service, connectCalled>>

\* client.sendRequest(DisconnectRequest.type, ...).then((result) => ...);
\* its resolve(result) finds the promise resolved already
DisconnectResponse(o) ==
    /\ Microtasks = {}
    /\ clock' = clock
    /\ o \in Requests("disconnect")
    /\ LET result == (o.disc = "accepted")
           o2 == [o EXCEPT !.disc = IF result THEN "ok" ELSE "failed"]
       IN /\ connections' = disconnect_response(connections, o.uri)
          /\ ops' = After(Remove(ops, o), o2)
          /\ out' = Out(o.uri,
                <<Status("statusView.notConnected", o.uri, NoCreds, "")>>,
                Response("disconnect", "", "", result, NoCreds), Finished(o2))
    /\ completed' = [completed EXCEPT ![o.uri] = "disconnect"]
    /\ UNCHANGED <<service, connectCalled>>

\* sendRequest(...)'s promise is rejected: .then((result) => ...) was given no
\* rejection handler, so nothing runs; connect()'s promise stays pending,
\* disconnect()'s promise was resolved when the request was sent
TransportFailure(o, kind) ==
    /\ Microtasks = {}
    /\ o \in Requests(kind)
    /\ LET o2 == IF kind = "connect" THEN [o EXCEPT !.conn = "lost"]
                                     ELSE [o EXCEPT !.disc = "lost"]
       IN /\ ops' = After(Remove(ops, o), o2)
          /\ out' = Out(o.uri, << >>, NoResponse, Finished(o2))
    /\ UNCHANGED <<clock, connections, service, connectCalled, completed>>

----------------------------------------------------------------------------
\* The handlers, with the documents the commands are invoked on, the
\* databases the user may pick, what the service may answer, and the time a
\* handler may take between two readings of the clock
NextOn(docs, dbs, ids, msgs, delays) ==
    \/ \E u \in docs, c \in [user : Users, database : dbs], a \in BOOLEAN,
          d \in delays :
            Connect(u, c, a, d)
    \/ \E u \in docs, a \in BOOLEAN : Disconnect(u, a)
    \/ \E u \in docs : OnChooseDatabase(u)
    \/ \E u \in docs : OnNewConnection(u)
    \/ \E o \in Live, d \in {<< >>} \cup {<<x>> : x \in dbs}, a \in BOOLEAN :
            ChooseDatabaseAnswer(o, d, a)
    \/ \E o \in Live,
          c \in {<< >>} \cup {<<x>> : x \in [user : Users, database : dbs]},
          a \in BOOLEAN :
            NewConnectionAnswer(o, c, a)
    \/ \E o \in Live, a \in BOOLEAN, d \in delays : ThenConnect(o, a, d)
    \/ \E o \in Live : ThenResolve(o)
    \/ \E o \in Live, h \in ids, m \in msgs, d \in delays :
            ConnectResponse(o, h, m, d)
    \/ \E o \in Live : DisconnectResponse(o)

\* one document, every answer of the service
Next == NextOn({"doc1"}, Databases, ConnectionIds, Messages, {0})
Spec == Init /\ [][Next]_vars

\* two documents, one database, one handle
NextDocs == NextOn(Resources, {"db1"}, {"abc", ""}, {"login failed"}, {0})
SpecDocs == Init /\ [][NextDocs]_vars

\* no editor open: every command runs with '' as its fileUri
NextNoEditor == NextOn({""}, Databases, ConnectionIds, Messages, {0})
SpecNoEditor == Init /\ [][NextNoEditor]_vars

\* one document, requests that may fail in transport
NextTransport ==
    \/ NextOn({"doc1"}, {"db1"}, {"abc", ""}, {"login failed"}, {0})
    \/ \E o \in Live, kind \in {"connect", "disconnect"} : TransportFailure(o, kind)
SpecTransport == Init /\ [][NextTransport]_vars

\* time passes between two handlers
Tick ==
    /\ clock < MaxClock
    /\ clock' = clock + 1
    /\ out' = Out("", << >>, NoResponse, << >>)
    /\ UNCHANGED <<connections, ops, service, connectCalled, completed>>

\* one document, one database, every connect answered with a handle, with
\* the clock running
NextClock ==
    \/ NextOn({"doc1"}, {"db1"}, {"abc"}, {"login failed"}, {0, 1})
    \/ Tick
SpecClock == Init /\ [][NextClock]_vars

----------------------------------------------------------------------------
\* The step a state results from, read off out

\* a connect response with a handle / with an empty or missing handle
ConnectSucceeded(o) ==
    /\ o.response # NoResponse
    /\ o.response[1].kind = "connect"
    /\ o.response[1].connectionId \in Handles

ConnectFailed(o) ==
    /\ o.response # NoResponse
    /\ o.response[1].kind = "connect"
    /\ o.response[1].connectionId \in {"", Undefined}

DisconnectAnswered(o) ==
    /\ o.response # NoResponse
    /\ o.response[1].kind = "disconnect"

\* the commands that ended in the step
Ended == {out.finished[i] : i \in DOMAIN out.finished}

QueuedFor(fileUri) == {o \in Microtasks : o.uri = fileUri}

----------------------------------------------------------------------------
\* C1: whenever the promise returned by disconnect(R) is resolved, the
\* registry holds no entry for R.
DisconnectReportsAfterRegistryUpdate ==
    \A c \in Calls :
        (c.fn = "resolve" /\ c.text = "disconnect") => ~isConnected(c.uri)

\* C2: at most one protocol request per document is unanswered at any time.
OperationsSerializedPerResource ==
    \A u \in Resources : InFlight(u) <= 1

\* C3: the registry matches the order in which a document's connect and
\* disconnect requests complete: an entry if a successful connect completed
\* last, none if a disconnect completed last.
FinalStateMatchesCompletionOrder ==
    \A u \in Resources :
        /\ completed[u] = "connect" => isConnected(u)
        /\ completed[u] = "disconnect" => ~isConnected(u)

\* a command's disconnect and connect were unanswered together, the connect
\* succeeded and the disconnect was answered last
DisconnectCompletedLast ==
    \E o \in Ended :
        /\ o.conn = "ok" /\ o.disc \in {"ok", "failed"}
        /\ DisconnectAnswered(out)
        /\ completed[o.uri] = "disconnect"
        /\ ~isConnected(o.uri)

\* C4: with nothing under way for a document, the registry has an entry for
\* it exactly if the service holds a connection for it.
RegistryAgreesWithService ==
    \A u \in Resources :
        (InFlight(u) = 0 /\ QueuedFor(u) = {}) => (isConnected(u) <=> u \in service)

\* C5 as claimed: a connect response with an empty or missing handle leaves
\* the registry as it was, rejects the promise, and passes exactly the
\* response's messages to showErrorMsg and to statusView.connectError.
ConnectFailureSurfacesExactMessages ==
    [][ConnectFailed(out') =>
        LET r == out'.response[1]
        IN /\ connections' = connections
           /\ Settled("reject", "connect", out'.uri, FALSE) \in CallsOf(out')
           /\ Status("statusView.connectError", out'.uri, r.creds, r.messages)
                \in CallsOf(out')
           /\ ShowMsg("showErrorMsg", r.messages) \in CallsOf(out')
           /\ \A c \in CallsOf(out') : c.fn = "showErrorMsg" => c.text = r.messages
      ]_vars

\* C5 as the code has it: the same, the text passed to showErrorMsg being
\* the response's messages after the prefix Constants.msgError.
ConnectFailureSurfacesPrefixedMessages ==
    [][ConnectFailed(out') =>
        LET r == out'.response[1]
        IN /\ connections' = connections
           /\ Settled("reject", "connect", out'.uri, FALSE) \in CallsOf(out')
           /\ Status("statusView.connectError", out'.uri, r.creds, r.messages)
                \in CallsOf(out')
           /\ ShowMsg("showErrorMsg", msgError \o r.messages) \in CallsOf(out')
           /\ \A c \in CallsOf(out') :
                c.fn = "showErrorMsg" => c.text = msgError \o r.messages
      ]_vars

\* a connect failed on a connected document, whose entry is still there
ConnectFailedWhileConnected ==
    ConnectFailed(out) /\ isConnected(out.uri)

\* C6: an entry never has an empty connectionId, a successful connect
\* response for R writes the entry of R from its handle and the credentials
\* of the connect() call it answers, and nothing else writes an entry.
EntriesWrittenBySuccessfulConnect ==
    [][\A u \in Resources :
        /\ isConnected(u)' => connections'[u].connectionId \notin {"", Undefined}
        /\ (ConnectSucceeded(out') /\ out'.uri = u) =>
                /\ isConnected(u)'
                /\ connections'[u] = ConnectionInfo(out'.response[1].connectionId,
                                                    out'.response[1].creds)
        /\ (isConnected(u)' /\ ~(ConnectSucceeded(out') /\ out'.uri = u)) =>
                /\ isConnected(u)
                /\ connections'[u] = connections[u]
      ]_vars

\* a connect succeeded while another connect() for the document, called with
\* other credentials, is unanswered
ConnectSucceededAmongSeveral ==
    /\ ConnectSucceeded(out)
    /\ isConnected(out.uri)
    /\ \E o \in Requests("connect") :
            o.uri = out.uri /\ o.creds # connections[out.uri].credentials

\* C7: disconnect(R) called while R has no entry resolves true, sends no
\* request and leaves the registry as it was.
DisconnectWithoutEntryIsNoOp ==
    [][\A u \in Resources :
        (Invoked("disconnect", u, NoCreds) \in CallsOf(out') /\ ~isConnected(u)) =>
            /\ Settled("resolve", "disconnect", u, TRUE) \in CallsOf(out')
            /\ \A c \in CallsOf(out') : c.fn # "sendRequest"
            /\ InFlight(u)' = InFlight(u)
            /\ connections' = connections
      ]_vars

DisconnectedWithoutEntry ==
    /\ Invoked("disconnect", out.uri, NoCreds) \in Calls
    /\ Settled("resolve", "disconnect", out.uri, TRUE) \in Calls
    /\ ~isConnected(out.uri)
    /\ InFlight(out.uri) = 0

\* C8: a step for one document leaves the entry of every other document as
\* it was, and a document connect() was never called for has no entry.
SessionsIndependent ==
    [][\A u \in Resources :
        /\ u \notin connectCalled' => ~isConnected(u)'
        /\ u # out'.uri =>
                /\ isConnected(u)' <=> isConnected(u)
                /\ isConnected(u) => connections'[u] = connections[u]
      ]_vars

\* a request of doc2 was answered while doc1 is connected and has a request
\* of its own unanswered
AnsweredBesideAnotherDocument ==
    /\ out.uri = "doc2" /\ out.response # NoResponse
    /\ isConnected("doc1")
    /\ InFlight("doc1") > 0

\* C9: when an onChooseDatabase whose disconnect succeeded and whose connect
\* failed has had its requests answered, no other command having been under
\* way on the document meanwhile, the document has no entry.
SwitchConnectFailureLeavesDisconnected ==
    \A o \in Ended :
        (/\ o.kind = "onChooseDatabase"
         /\ o.disc \in {"none", "ok"}
         /\ o.conn = "failed"
         /\ o.clean) => ~isConnected(o.uri)

SwitchDisconnectedConnectFailed ==
    \E o \in Ended :
        /\ o.kind = "onChooseDatabase"
        /\ o.disc = "ok" /\ o.conn = "failed" /\ o.clean
        /\ DisconnectAnswered(out)

\* C10: when an onChooseDatabase whose disconnect and connect the service
\* both accepted has had its requests answered, no other command having been
\* under way on the document meanwhile, the document has an entry with the
\* database that was picked.
SwitchEndsOnPickedDatabase ==
    \A o \in Ended :
        (/\ o.kind = "onChooseDatabase"
         /\ o.disc = "ok"
         /\ o.conn = "ok"
         /\ o.clean) =>
            /\ isConnected(o.uri)
            /\ connections[o.uri].credentials.database = o.creds.database

\* C11: once the disconnect request a disconnect(R) call sent is answered,
\* the promise of that call has been settled with the result the response
\* carries: true if the service reports true, false if it reports false.
DisconnectOutcomeIsServiceResult ==
    \A o \in Live \cup Ended :
        /\ o.disc = "ok" => o.outcome = <<TRUE>>
        /\ o.disc = "failed" => o.outcome = <<FALSE>>

\* C12: a request that fails in transport leaves no promise pending and is
\* reported as a failure: the promise of connect() is settled, the promise
\* of disconnect() is not settled with true, and the registry is as it was
\* before the request or has no entry for the document.
TransportFailureSurfaced ==
    \A o \in Live \cup Ended :
        /\ o.conn # "lost"
        /\ o.disc = "lost" => o.outcome # <<TRUE>>

\* C13: no connect request is sent with the empty fileUri, and the registry
\* has no entry keyed by it.
NoRequestForEmptyResource ==
    /\ \A c \in Calls : (c.fn = "sendRequest" /\ c.text = "connect") => c.uri # ""
    /\ ~isConnected("")

\* C14: a step sends one DatabaseConnected event if it handles a connect
\* response with a handle, and none otherwise; the event is sent after the
\* connection is stored.
TelemetryOncePerSuccessfulConnect ==
    [][LET calls == out'.calls
           events == {i \in DOMAIN calls : calls[i].fn = "sendTelemetryEvent"}
           stores == {i \in DOMAIN calls : calls[i].fn = "_connections[fileUri] ="}
       IN /\ Cardinality(events) = IF ConnectSucceeded(out') THEN 1 ELSE 0
          /\ \A i \in events :
                /\ calls[i].text = "DatabaseConnected"
                /\ \E j \in stores : j < i /\ calls[j].uri = calls[i].uri
                /\ calls[i].uri \in DOMAIN connections'
      ]_vars

\* the event was sent for a connect that succeeded while a command whose
\* own connect has been answered is still under way for the document
TelemetrySentAfterStore ==
    /\ ConnectSucceeded(out)
    /\ Telemetry(out.uri, connect_measures(out.response[1].timers[1],
                                           out.response[1].timers[2])) \in Calls
    /\ isConnected(out.uri)
    /\ \E o \in Live : o.uri = out.uri /\ o.conn \in {"failed", "ok"}

\* C15: an onNewConnection command has its connect() queued, sent or answered
\* only once its disconnect() has been called and the promise of that call
\* settled, no step that calls disconnect() sends a connect request, and the
\* promise of onNewConnection is resolved only for a command whose connect()
\* was resolved.
NewConnectionDisconnectsThenConnects ==
    /\ \A o \in Live \cup Ended :
            (o.kind = "onNewConnection" /\ o.conn # "none") => o.outcome # << >>
    /\ (\E c \in Calls : c.fn = "disconnect") =>
            \A c \in Calls : ~(c.fn = "sendRequest" /\ c.text = "connect")
    /\ Settled("resolve", "onNewConnection", out.uri, TRUE) \in Calls =>
            \E o \in Live \cup Ended :
                /\ o.kind = "onNewConnection" /\ o.uri = out.uri
                /\ o.pc = "run" /\ o.conn = "ok"

\* the promise of an onNewConnection that sent a disconnect request, then
\* connected, is resolved
NewConnectionResolved ==
    /\ Settled("resolve", "onNewConnection", out.uri, TRUE) \in Calls
    /\ \E o \in Live \cup Ended :
            /\ o.kind = "onNewConnection" /\ o.uri = out.uri
            /\ o.conn = "ok" /\ o.disc # "none"

\* C16: onChooseDatabase() called while the active document has no entry
\* shows the warning, opens no database prompt, sends no request, starts
\* no command and leaves the registry as it was.
ChooseDatabaseNotConnectedAborts ==
    [][\A u \in FileUris :
        (Invoked("onChooseDatabase", u, NoCreds) \in CallsOf(out')
            /\ ~isConnected(u)) =>
            /\ ShowMsg("showWarnMsg", msgChooseDatabaseNotConnected) \in CallsOf(out')
            /\ \A c \in CallsOf(out') :
                    c.fn \notin {"showDatabasesOnCurrentServer", "sendRequest"}
            /\ ops' = ops
            /\ connections' = connections
      ]_vars

\* onChooseDatabase() warned on a document connect() was called for and
\* whose disconnect request was answered last
ChooseDatabaseWarned ==
    /\ Invoked("onChooseDatabase", out.uri, NoCreds) \in Calls
    /\ ShowMsg("showWarnMsg", msgChooseDatabaseNotConnected) \in Calls
    /\ ~isConnected(out.uri)
    /\ out.uri \in connectCalled
    /\ completed[out.uri] = "disconnect"

\* C17: the step that handles the response to a disconnect request for R
\* calls statusView.notConnected(R) and leaves the registry without an entry
\* for R and otherwise as it was, whether the response carries true or
\* false and whether R had an entry or not.
DisconnectResponseClearsEntry ==
    [][DisconnectAnswered(out') =>
        /\ Status("statusView.notConnected", out'.uri, NoCreds, "") \in CallsOf(out')
        /\ out'.uri \notin DOMAIN connections'
        /\ DOMAIN connections' = DOMAIN connections \ {out'.uri}
        /\ \A u \in DOMAIN connections' : connections'[u] = connections[u]
      ]_vars

\* a disconnect the service refused was answered: the entry is gone and the
\* service still holds the connection
RefusedDisconnectCleared ==
    /\ DisconnectAnswered(out)
    /\ ~out.response[1].success
    /\ ~isConnected(out.uri)
    /\ out.uri \in service

\* C18 as claimed: the event of a successful connect carries as
\* extensionConnectionTime the time from the start of the connect() call to
\* the end of its callback's work, as serviceConnectionTime the time from
\* sending the request to its response, and the first is at least the second.
TelemetryCarriesTotalAndServiceTime ==
    ConnectSucceeded(out) =>
        LET extensionTimer == out.response[1].timers[1]
            serviceTimer == out.response[1].timers[2]
            total == extensionTimer.end - extensionTimer.start
            roundTrip == serviceTimer.end - serviceTimer.start
        IN \A c \in Calls : c.fn = "sendTelemetryEvent" =>
                /\ c.measures[1].extensionConnectionTime = total
                /\ c.measures[1].serviceConnectionTime = roundTrip
                /\ c.measures[1].extensionConnectionTime
                        >= c.measures[1].serviceConnectionTime

\* C18 as the code has it: serviceConnectionTime is the time from sending
\* the request to its response, extensionConnectionTime is the time of the
\* whole call less that, neither is negative, and they add up to the time of
\* the whole call.
TelemetryCarriesOverheadAndServiceTime ==
    ConnectSucceeded(out) =>
        LET extensionTimer == out.response[1].timers[1]
            serviceTimer == out.response[1].timers[2]
            total == extensionTimer.end - extensionTimer.start
            roundTrip == serviceTimer.end - serviceTimer.start
        IN \A c \in Calls : c.fn = "sendTelemetryEvent" =>
                /\ c.measures[1].serviceConnectionTime = roundTrip
                /\ c.measures[1].extensionConnectionTime = total - roundTrip
                /\ c.measures[1].serviceConnectionTime >= 0
                /\ c.measures[1].extensionConnectionTime >= 0
                /\ c.measures[1].extensionConnectionTime
                        + c.measures[1].serviceConnectionTime = total

\* an event whose two times are both above zero
TelemetryWithOverhead ==
    /\ ConnectSucceeded(out)
    /\ \E c \in Calls :
            /\ c.fn = "sendTelemetryEvent"
            /\ c.measures[1].extensionConnectionTime > 0
            /\ c.measures[1].serviceConnectionTime > 0

\* C19: when nothing of an onNewConnection command is left (the prompt was
\* answered, its requests were answered, no reaction is queued), the promise
\* it returned has been settled; in the code only the reaction queued by a
\* resolved connect() settles it.
NewConnectionEndsSettled ==
    \A o \in Ended :
        o.kind = "onNewConnection" => (o.pc = "run" /\ o.conn = "ok")

====
